---- MODULE Spec2Model ----
(***************************************************************************)
(* Merchant-name blocking: the parsing pipeline of parsing.py and the two  *)
(* candidate-pair strategies of blocking.py.                               *)
(*                                                                         *)
(* A Python str is a sequence of one-character strings; a token list is a  *)
(* sequence of such sequences.                                             *)
(***************************************************************************)
EXTENDS Integers, Sequences, FiniteSets, TLC

VARIABLES
    pc,              \* which function of parsing.py / blocking.py has been applied
    in_tokens,       \* the token list handed to the parsing functions
    arg_type,        \* the mtype argument handed to extract_core
    out_type,        \* detect_type's result
    out_core,        \* extract_core's result
    out_suffix,      \* extract_suffix's result
    input,           \* the data rows of the input table
    chunksize_arg,   \* the chunksize run_blocking_duckdb is called with
    p_pc,            \* run_blocking_pandas: start, done or error
    p_b1, p_b2,      \* run_blocking_pandas: df_b1 and df_b2
    p_out,           \* run_blocking_pandas: the output file
    d_pc,            \* run_blocking_duckdb: loop, done, nodata or error
    first_chunk,     \* run_blocking_duckdb: first_chunk
    rows_processed,  \* run_blocking_duckdb: rows_processed
    pos,             \* the chunked reader: the data rows it has handed out
    b1, b2,          \* run_blocking_duckdb: the tables b1 and b2
    d_out,           \* run_blocking_duckdb: the output file
    prep_df,         \* a frame handed to prepare_blocking_dataframe
    prep_offset,     \* the row_offset handed with it
    prepared,        \* prepare_blocking_dataframe's result
    out_stripped,    \* _strip_type_prefix's result
    name_raw,        \* a cell handed to normalize_name / parse_merchant
    norm_once,       \* normalize_name of name_raw
    norm_twice       \* normalize_name of norm_once

parseVars == <<in_tokens, arg_type, out_type, out_core, out_suffix, out_stripped>>
normVars == <<name_raw, norm_once, norm_twice>>
pandasVars == <<p_pc, p_b1, p_b2, p_out>>
duckVars == <<d_pc, first_chunk, rows_processed, pos, b1, b2, d_out>>
runVars == <<input, chunksize_arg, pandasVars, duckVars>>
prepVars == <<prep_df, prep_offset, prepared>>
vars == <<pc, parseVars, runVars, prepVars, normVars>>

\* ------------------------------------------------------------- bounds

MaxTokens == 3
MaxCoreTokens == 4
MaxSuffixTokens == 3
MaxRows == 3
MaxChunk == 3
MaxStart == 2
MaxNameLen == 5

\* ---------------------------------------------------------- characters

Digits == {"0", "1", "2", "3", "4", "5", "6", "7", "8", "9"}

UpperLetters ==
    {"A", "B", "C", "D", "E", "F", "G", "H", "I", "J", "K", "L", "M",
     "N", "O", "P", "Q", "R", "S", "T", "U", "V", "W", "X", "Y", "Z"}

\* Accented letters are single characters of a str. They are written here in
\* the VIQR transliteration: "a'" is a-acute, "a(" is a-breve, "u+" is u-horn,
\* "o+" is o-horn, and the capital forms likewise.
AccentedUpper == {"A'", "A(", "U+", "O+"}

\* str.upper() on the lower-case letters the inputs use. An accented letter
\* maps to its accented capital: upper() changes case and nothing else.
LowerToUpper ==
    [a |-> "A", b |-> "B", c |-> "C", e |-> "E", g |-> "G", n |-> "N", o |-> "O",
     p |-> "P", t |-> "T", u |-> "U", y |-> "Y"]
    @@ ("a'" :> "A'" @@ "a(" :> "A(" @@ "u+" :> "U+" @@ "o+" :> "O+")

\* The unaccented capital of an accented capital.
Unaccented == ("A'" :> "A" @@ "A(" :> "A" @@ "U+" :> "U" @@ "O+" :> "O")

WhiteSpace == {" ", "\t"}

\* \w of the re module on a str pattern: Unicode letters (accented ones
\* included), digits and the underscore.
IsWordChar(c) ==
    c \in UpperLetters \cup AccentedUpper \cup DOMAIN LowerToUpper \cup Digits \cup {"_"}

IsSpaceChar(c) == c \in WhiteSpace

\* an upper() that also removed the accent
UpperChar_folding(c) ==
    LET u == IF c \in DOMAIN LowerToUpper THEN LowerToUpper[c] ELSE c
    IN IF u \in DOMAIN Unaccented THEN Unaccented[u] ELSE u

UpperChar(c) == IF c \in DOMAIN LowerToUpper THEN LowerToUpper[c] ELSE c

\* ------------------------------------------------------ string helpers

Range(s) == {s[i] : i \in 1..Len(s)}

Drop(s, k) == SubSeq(s, k + 1, Len(s))

RECURSIVE LStrip(_)
LStrip(s) == IF s # <<>> /\ IsSpaceChar(s[1]) THEN LStrip(Tail(s)) ELSE s

RECURSIVE RStrip(_)
RStrip(s) ==
    IF s # <<>> /\ IsSpaceChar(s[Len(s)]) THEN RStrip(SubSeq(s, 1, Len(s) - 1)) ELSE s

\* str.strip()
Strip(s) == RStrip(LStrip(s))

\* str.upper()
Upper(s) == [i \in 1..Len(s) |-> UpperChar(s[i])]

CoDotOp == <<"C", "O", ".", "O", "P">>
Coop == <<"C", "O", "O", "P">>

\* s.replace("CO.OP", "COOP"): left to right, non-overlapping
RECURSIVE ReplaceCoOp(_)
ReplaceCoOp(s) ==
    IF s = <<>> THEN <<>>
    ELSE IF Len(s) >= 5 /\ SubSeq(s, 1, 5) = CoDotOp
         THEN Coop \o ReplaceCoOp(Drop(s, 5))
         ELSE <<s[1]>> \o ReplaceCoOp(Tail(s))

\* re.sub(r"[^\w\s]", " ", s)
SubPunct(s) ==
    [i \in 1..Len(s) |-> IF IsWordChar(s[i]) \/ IsSpaceChar(s[i]) THEN s[i] ELSE " "]

\* s.replace("  ", " ") in place of the regular expression: each pair of
\* spaces becomes one space, left to right, in a single pass
RECURSIVE CollapseSpace_pairs(_)
CollapseSpace_pairs(s) ==
    IF s = <<>> THEN <<>>
    ELSE IF Len(s) >= 2 /\ IsSpaceChar(s[1]) /\ IsSpaceChar(s[2])
         THEN <<" ">> \o CollapseSpace_pairs(Drop(s, 2))
         ELSE <<s[1]>> \o CollapseSpace_pairs(Tail(s))

\* re.sub(r"\s+", " ", s): every maximal run of whitespace becomes one space
RECURSIVE CollapseSpace(_)
CollapseSpace(s) ==
    IF s = <<>> THEN <<>>
    ELSE IF IsSpaceChar(s[1])
         THEN <<" ">> \o CollapseSpace(LStrip(s))
         ELSE <<s[1]>> \o CollapseSpace(Tail(s))

\* ---------------------------------------------------------------- cells

\* A cell of the input table: a str, or a value that is no str (NaN, a number).
StrCell(s) == [isstr |-> TRUE, chars |-> s]
NanCell == [isstr |-> FALSE, chars |-> <<>>]

\* ------------------------------------------------------------ parsing.py

normalize_name(name) ==
    IF ~name.isstr THEN <<>>
    ELSE Strip(CollapseSpace(SubPunct(ReplaceCoOp(Strip(Upper(name.chars))))))

\* str.split(): the maximal runs of non-whitespace characters
RECURSIVE Split(_, _)
Split(s, cur) ==
    IF s = <<>> THEN (IF cur = <<>> THEN <<>> ELSE <<cur>>)
    ELSE IF IsSpaceChar(s[1])
         THEN (IF cur = <<>> THEN <<>> ELSE <<cur>>) \o Split(Tail(s), <<>>)
         ELSE Split(Tail(s), Append(cur, s[1]))

tokenize(name) == IF name = <<>> THEN <<>> ELSE Split(name, <<>>)

\* the token literals of the rules
tHKD == <<"H", "K", "D">>
tHO == <<"H", "O">>
tKINH == <<"K", "I", "N", "H">>
tDOANH == <<"D", "O", "A", "N", "H">>
tNHA == <<"N", "H", "A">>
tTHUOC == <<"T", "H", "U", "O", "C">>
tQUAN == <<"Q", "U", "A", "N">>
tAN == <<"A", "N">>
tHANG == <<"H", "A", "N", "G">>
tSALON == <<"S", "A", "L", "O", "N">>
tTOC == <<"T", "O", "C">>
tTIEM == <<"T", "I", "E", "M">>
tGAS == <<"G", "A", "S">>
tCAFE == <<"C", "A", "F", "E">>
tCOFFEE == <<"C", "O", "F", "F", "E", "E">>
tCUA == <<"C", "U", "A">>
tSHOP == <<"S", "H", "O", "P">>
tSTORE == <<"S", "T", "O", "R", "E">>
tMART == <<"M", "A", "R", "T">>
tVP == <<"V", "P">>
tVAN == <<"V", "A", "N">>
tPHONG == <<"P", "H", "O", "N", "G">>
tCT == <<"C", "T">>
tCTY == <<"C", "T", "Y">>
tCONG == <<"C", "O", "N", "G">>
tTY == <<"T", "Y">>
tTNHH == <<"T", "N", "H", "H">>
tCH == <<"C", "H">>
tPOS == <<"P", "O", "S">>

MerchantType ==
    {"COMPANY_CT", "HOUSEHOLD_HKD", "PHARMACY", "GAS", "SHOP", "CAFE",
     "RESTAURANT_QUAN", "HAIR_SALON", "OFFICE_VP", "OTHER"}

GENERIC_TOKENS == {tCH, tCUA, tHANG, tTIEM, tSHOP, tSTORE, tMART, tPOS, tQUAN, tAN}

SUFFIX_CANDIDATES ==
    {<<"B", "T", "L">>, <<"Q", "1">>, <<"Q", "2">>, <<"Q", "3">>, <<"Q", "4">>,
     <<"Q", "5">>, <<"Q", "6">>, <<"Q", "7">>, <<"Q", "8">>, <<"Q", "9">>,
     <<"Q", "1", "0">>, <<"Q", "1", "1">>, <<"Q", "1", "2">>, <<"G", "O">>,
     <<"V", "A", "P">>, <<"G", "V">>, <<"O", "C", "P">>, <<"C", "P", "C">>}

\* x in tokens
In(x, tokens) == \E i \in 1..Len(tokens) : tokens[i] = x

\* mutant: the elements of seq occur somewhere, adjacent or not
has_sequence_anywhere(tokens, seq) ==
    tokens # <<>> /\ seq # <<>> /\ \A k \in 1..Len(seq) : In(seq[k], tokens)

_has_sequence(tokens, seq) ==
    IF tokens = <<>> \/ seq = <<>> THEN FALSE
    ELSE \E i \in 0..(Len(tokens) - Len(seq)) : SubSeq(tokens, i + 1, i + Len(seq)) = seq

detect_type(tokens) ==
    IF tokens = <<>> THEN "OTHER"
    ELSE IF In(tHKD, tokens) \/ _has_sequence(tokens, <<tHO, tKINH, tDOANH>>)
    THEN "HOUSEHOLD_HKD"
    ELSE IF _has_sequence(tokens, <<tNHA, tTHUOC>>)
    THEN "PHARMACY"
    ELSE IF _has_sequence(tokens, <<tQUAN, tAN>>) \/ _has_sequence(tokens, <<tNHA, tHANG>>)
    THEN "RESTAURANT_QUAN"
    ELSE IF (In(tSALON, tokens) /\ In(tTOC, tokens)) \/ _has_sequence(tokens, <<tTIEM, tTOC>>)
    THEN "HAIR_SALON"
    ELSE IF In(tGAS, tokens)
    THEN "GAS"
    ELSE IF In(tCAFE, tokens) \/ In(tCOFFEE, tokens)
    THEN "CAFE"
    ELSE IF (In(tCUA, tokens) /\ In(tHANG, tokens)) \/ In(tSHOP, tokens)
            \/ In(tSTORE, tokens) \/ In(tMART, tokens)
    THEN "SHOP"
    ELSE IF In(tVP, tokens) \/ _has_sequence(tokens, <<tVAN, tPHONG>>)
    THEN "OFFICE_VP"
    ELSE IF In(tCT, tokens) \/ In(tCTY, tokens)
            \/ (In(tCONG, tokens) /\ In(tTY, tokens)) \/ In(tTNHH, tokens)
    THEN "COMPANY_CT"
    ELSE "OTHER"

\* list.index(x): the 0-based place of the first occurrence (x is in t)
Index(t, x) == (CHOOSE i \in 1..Len(t) : t[i] = x /\ \A j \in 1..(i - 1) : t[j] # x) - 1

\* the for loop of the nested strip_sequence: from offset i on, the remainder
\* after the first window equal to seq, or t when there is none
RECURSIVE StripFrom(_, _, _)
StripFrom(t, seq, i) ==
    IF i > Len(t) - Len(seq) THEN t
    ELSE IF SubSeq(t, i + 1, i + Len(seq)) = seq THEN Drop(t, i + Len(seq))
    ELSE StripFrom(t, seq, i + 1)

strip_sequence(t, seq) == IF _has_sequence(t, seq) THEN StripFrom(t, seq, 0) ELSE t

COMPANY_PREFIX == {tCT, tCTY, tCONG, tTY, tTNHH}

\* an if in place of the while: at most one company token is counted
CompanyRun_one(t, i) ==
    IF i < Len(t) /\ t[i + 1] \in COMPANY_PREFIX THEN i + 1 ELSE i

\* the while loop of the COMPANY_CT branch
RECURSIVE CompanyRun(_, _)
CompanyRun(t, i) ==
    IF i < Len(t) /\ t[i + 1] \in COMPANY_PREFIX THEN CompanyRun(t, i + 1) ELSE i

_strip_type_prefix(tokens, mtype) ==
    LET t == tokens IN
    CASE mtype = "HOUSEHOLD_HKD" ->
            IF In(tHKD, t) THEN Drop(t, Index(t, tHKD) + 1)
            ELSE strip_sequence(t, <<tHO, tKINH, tDOANH>>)
      [] mtype = "PHARMACY" -> strip_sequence(t, <<tNHA, tTHUOC>>)
      [] mtype = "RESTAURANT_QUAN" ->
            IF _has_sequence(t, <<tQUAN, tAN>>) THEN strip_sequence(t, <<tQUAN, tAN>>)
            ELSE strip_sequence(t, <<tNHA, tHANG>>)
      [] mtype = "HAIR_SALON" ->
            IF _has_sequence(t, <<tSALON, tTOC>>) THEN strip_sequence(t, <<tSALON, tTOC>>)
            ELSE strip_sequence(t, <<tTIEM, tTOC>>)
      [] mtype = "GAS" ->
            IF t # <<>> /\ t[1] = tGAS THEN Drop(t, 1) ELSE t
      [] mtype = "CAFE" ->
            IF In(tCAFE, t) THEN Drop(t, Index(t, tCAFE) + 1)
            ELSE IF In(tCOFFEE, t) THEN Drop(t, Index(t, tCOFFEE) + 1)
            ELSE t
      [] mtype = "SHOP" ->
            IF _has_sequence(t, <<tCUA, tHANG>>) THEN strip_sequence(t, <<tCUA, tHANG>>)
            ELSE IF t # <<>> /\ t[1] = tCH THEN Drop(t, 1)
            ELSE IF t # <<>> /\ t[1] = tTIEM THEN Drop(t, 1)
            ELSE t
      [] mtype = "OFFICE_VP" ->
            IF t # <<>> /\ t[1] = tVP THEN Drop(t, 1)
            ELSE IF _has_sequence(t, <<tVAN, tPHONG>>) THEN strip_sequence(t, <<tVAN, tPHONG>>)
            ELSE t
      [] mtype = "COMPANY_CT" -> Drop(t, CompanyRun(t, 0))
      [] OTHER -> t

\* [tok for tok in t if tok not in GENERIC_TOKENS]
NonGeneric(t) == SelectSeq(t, LAMBDA tok : tok \notin GENERIC_TOKENS)

\* mutant: the first token after the prefix, generic or not
extract_core_unfiltered(tokens, mtype) ==
    IF tokens = <<>> THEN <<>>
    ELSE LET t == _strip_type_prefix(tokens, mtype)
         IN  IF t # <<>> THEN t[1] ELSE <<>>

extract_core(tokens, mtype) ==
    IF tokens = <<>> THEN <<>>
    ELSE LET filtered == NonGeneric(_strip_type_prefix(tokens, mtype))
         IN  IF filtered # <<>> THEN filtered[1] ELSE <<>>

\* str.isdigit(): not empty and every character a digit
IsDigit(tok) == tok # <<>> /\ \A i \in 1..Len(tok) : tok[i] \in Digits

\* re.match(r"^T\d+$", tok)
IsTDigits(tok) == Len(tok) >= 2 /\ tok[1] = "T" /\ IsDigit(Tail(tok))

IsSuffixToken(tok) == IsDigit(tok) \/ IsTDigits(tok) \/ tok \in SUFFIX_CANDIDATES

\* the loop over reversed(tokens): suffix collects the tokens in reverse order
RECURSIVE SuffixScan(_, _)
SuffixScan(tokens, suffix) ==
    IF tokens = <<>> THEN suffix
    ELSE LET tok == tokens[Len(tokens)] IN
         IF IsSuffixToken(tok)
         THEN SuffixScan(SubSeq(tokens, 1, Len(tokens) - 1), Append(suffix, tok))
         ELSE suffix

Reversed(s) == [i \in 1..Len(s) |-> s[Len(s) + 1 - i]]

\* mutant: the collected run is returned as scanned, last token first
extract_suffix_unreversed(tokens) == SuffixScan(tokens, <<>>)

extract_suffix(tokens) == Reversed(SuffixScan(tokens, <<>>))

parse_merchant(name) ==
    LET normalized == normalize_name(name)
        toks == tokenize(normalized)
        mt == detect_type(toks)
    IN  [raw_name |-> name,
         normalized |-> normalized,
         tokens |-> toks,
         mtype |-> mt,
         core |-> extract_core(toks, mt),
         suffix_tokens |-> extract_suffix(toks)]

\* f"{t}|{c}": the type's value, the separator and the core
build_block_key(parsed) == <<parsed.mtype, "|", parsed.core>>

\* --------------------------------------------------- input vocabularies

tABC == <<"A", "B", "C">>
tQ1 == <<"Q", "1">>

SeqsUpTo(S, n) == UNION {[1..k -> S] : k \in 0..n}

\* every literal a rule of detect_type reads, and a token no rule reads
DetectVocab ==
    {tHKD, tHO, tKINH, tDOANH, tNHA, tTHUOC, tQUAN, tAN, tHANG, tSALON, tTOC,
     tTIEM, tGAS, tCAFE, tCOFFEE, tCUA, tSHOP, tSTORE, tMART, tVP, tVAN, tPHONG,
     tCT, tCTY, tCONG, tTY, tTNHH, tCH, tABC}

\* the literals the branch of _strip_type_prefix for mtype m reads
StripLiterals(m) ==
    CASE m = "HOUSEHOLD_HKD" -> {tHKD, tHO, tKINH, tDOANH}
      [] m = "PHARMACY" -> {tNHA, tTHUOC}
      [] m = "RESTAURANT_QUAN" -> {tQUAN, tAN, tNHA, tHANG}
      [] m = "HAIR_SALON" -> {tSALON, tTOC, tTIEM}
      [] m = "GAS" -> {tGAS}
      [] m = "CAFE" -> {tCAFE, tCOFFEE}
      [] m = "SHOP" -> {tCUA, tHANG, tCH, tTIEM}
      [] m = "OFFICE_VP" -> {tVP, tVAN, tPHONG}
      [] m = "COMPANY_CT" -> COMPANY_PREFIX
      [] OTHER -> {}

\* per type: the literals its branch reads, two generic tokens no branch but
\* SHOP's reads, and two tokens that are neither
CoreVocab(m) == StripLiterals(m) \cup {tCH, tPOS, tABC, tQ1}

SuffixVocab ==
    {<<"7">>, <<"1", "2">>, <<"T">>, <<"T", "2">>, <<"T", "1", "0">>, <<"T", "A">>,
     <<"2", "T">>, tQ1, <<"G", "V">>, <<"Q", "1", "3">>, <<"Q">>, tABC}

ParseIdle ==
    /\ arg_type = "OTHER"
    /\ out_type = "OTHER"
    /\ out_core = <<>>
    /\ out_suffix = <<>>
    /\ out_stripped = <<>>

NormIdle ==
    /\ name_raw = NanCell
    /\ norm_once = <<>>
    /\ norm_twice = <<>>

\* ----------------------------------------------------------- blocking.py

\* the two text columns (the defaults of run_blocking)
COL1 == "Merchant_Name_1"
COL2 == "Merchant_Name_2"

\* a row label of a frame's index: int(idx) gives val, or raises
IntLabel(n) == [coercible |-> TRUE, val |-> n]
BadLabel == [coercible |-> FALSE, val |-> 0]

RangeIndex(start, n) == [k \in 1..n |-> IntLabel(start + k - 1)]

\* the columns of a frame built from a non-empty list of records
BlockColumns ==
    {"source", "row_id", "raw_name", "normalized", "merchant_type", "core",
     "suffix", "block_key"}

\* pd.DataFrame(records): a frame of no records has no columns
DataFrame(records) ==
    [columns |-> IF records = <<>> THEN {} ELSE BlockColumns,
     index |-> RangeIndex(0, Len(records)),
     rows |-> records]

\* " ".join(suffix_tokens)
RECURSIVE JoinSpace(_)
JoinSpace(toks) ==
    IF toks = <<>> THEN <<>>
    ELSE IF Len(toks) = 1 THEN toks[1]
    ELSE toks[1] \o <<" ">> \o JoinSpace(Tail(toks))

\* the cells the input tables are drawn from, and parse_merchant of each
CellValues ==
    {NanCell,
     StrCell(<<"C", "t", "y", " ", "A">>),
     StrCell(<<"c", "t", "y", "-", "a", " ", "7">>)}

ParsedCells == [cell \in CellValues |-> parse_merchant(cell)]

\* the record of the row at 0-based place i of df
BlockRecord(df, col_name, source_label, row_offset, i) ==
    LET idx == df.index[i + 1]
        raw == df.rows[i + 1][col_name]
        row_id == IF idx.coercible THEN row_offset + idx.val ELSE row_offset + i
        parsed == IF raw \in CellValues THEN ParsedCells[raw] ELSE parse_merchant(raw)
    IN  [source |-> source_label,
         row_id |-> row_id,
         raw_name |-> parsed.raw_name,
         normalized |-> parsed.normalized,
         merchant_type |-> parsed.mtype,
         core |-> parsed.core,
         suffix |-> JoinSpace(parsed.suffix_tokens),
         block_key |-> build_block_key(parsed)]

\* mutant: rows whose cell is no str are skipped
prepare_blocking_dataframe_dropna(df, col_name, source_label, row_offset) ==
    DataFrame(SelectSeq(
        [k \in 1..Len(df.rows) |->
            BlockRecord(df, col_name, source_label, row_offset, k - 1)],
        LAMBDA r : r.raw_name.isstr))

prepare_blocking_dataframe(df, col_name, source_label, row_offset) ==
    DataFrame([k \in 1..Len(df.rows) |->
                  BlockRecord(df, col_name, source_label, row_offset, k - 1)])

\* a row of the join: the columns of both records, block_key once
Joined(r1, r2) ==
    [source_1 |-> r1.source, row_id_1 |-> r1.row_id, raw_name_1 |-> r1.raw_name,
     normalized_1 |-> r1.normalized, merchant_type_1 |-> r1.merchant_type,
     core_1 |-> r1.core, suffix_1 |-> r1.suffix, block_key |-> r1.block_key,
     source_2 |-> r2.source, row_id_2 |-> r2.row_id, raw_name_2 |-> r2.raw_name,
     normalized_2 |-> r2.normalized, merchant_type_2 |-> r2.merchant_type,
     core_2 |-> r2.core, suffix_2 |-> r2.suffix]

\* the rows of an inner equi-join on block_key
RECURSIVE InnerJoin(_, _)
InnerJoin(left, right) ==
    IF left = <<>> THEN <<>>
    ELSE LET hits == SelectSeq(right, LAMBDA r2 : r2.block_key = left[1].block_key)
         IN  [k \in 1..Len(hits) |-> Joined(left[1], hits[k])]
             \o InnerJoin(Tail(left), right)

\* mutant: every record of the one frame with every record of the other
build_candidate_pairs_cross(df_block_1, df_block_2) ==
    [raised |-> FALSE,
     rows |-> [k \in 1..(Len(df_block_1.rows) * Len(df_block_2.rows)) |->
                 Joined(df_block_1.rows[((k - 1) \div Len(df_block_2.rows)) + 1],
                        df_block_2.rows[((k - 1) % Len(df_block_2.rows)) + 1])]]

\* DataFrame.merge(on="block_key", how="inner"): a KeyError when a frame has no
\* block_key column
build_candidate_pairs(df_block_1, df_block_2) ==
    IF "block_key" \notin df_block_1.columns \/ "block_key" \notin df_block_2.columns
    THEN [raised |-> TRUE, rows |-> <<>>]
    ELSE [raised |-> FALSE, rows |-> InnerJoin(df_block_1.rows, df_block_2.rows)]

\* pd.read_csv(input_path): the data rows under a RangeIndex from 0
read_csv(data) ==
    [columns |-> {COL1, COL2}, index |-> RangeIndex(0, Len(data)), rows |-> data]

Min(a, b) == IF a <= b THEN a ELSE b

\* the chunk the chunked reader hands out at position at: up to size rows, under
\* the labels the rows have in the whole table
read_chunk(data, at, size) ==
    LET n == Min(size, Len(data) - at)
    IN  [columns |-> {COL1, COL2},
         index |-> RangeIndex(at, n),
         rows |-> SubSeq(data, at + 1, at + n)]

DEFAULT_CHUNKSIZE == 200000

\* chunksize if chunksize and chunksize > 0 else 200_000 (None is 0 here)
effective_chunksize(chunksize) ==
    IF chunksize # 0 /\ chunksize > 0 THEN chunksize ELSE DEFAULT_CHUNKSIZE

NoFile == [written |-> FALSE, rows |-> <<>>]
File(rows) == [written |-> TRUE, rows |-> rows]
NoFrame == DataFrame(<<>>)

\* ------------------------------------------------------- the two strategies

InputRows == [{COL1, COL2} -> CellValues]

PrepIdle ==
    /\ prep_df = read_csv(<<>>)
    /\ prep_offset = 0
    /\ prepared = NoFrame

RunIdle ==
    /\ input = <<>>
    /\ chunksize_arg = 0
    /\ p_pc = "idle"
    /\ p_b1 = NoFrame
    /\ p_b2 = NoFrame
    /\ p_out = NoFile
    /\ d_pc = "idle"
    /\ first_chunk = TRUE
    /\ rows_processed = 0
    /\ pos = 0
    /\ b1 = <<>>
    /\ b2 = <<>>
    /\ d_out = NoFile

Init ==
    /\ pc = "run"
    /\ in_tokens = <<>>
    /\ ParseIdle
    /\ PrepIdle
    /\ NormIdle
    /\ input \in SeqsUpTo(InputRows, MaxRows)
    /\ chunksize_arg \in 0..MaxChunk
    /\ p_pc = "start"
    /\ p_b1 = NoFrame
    /\ p_b2 = NoFrame
    /\ p_out = NoFile
    /\ d_pc = "loop"
    /\ first_chunk = TRUE
    /\ rows_processed = 0
    /\ pos = 0
    /\ b1 = <<>>
    /\ b2 = <<>>
    /\ d_out = NoFile

\* run_blocking_pandas, whole: read, parse both columns, merge, write
RunPandas ==
    /\ p_pc = "start"
    /\ LET df == read_csv(input)
           df_b1 == prepare_blocking_dataframe(df, COL1, "col1", 0)
           df_b2 == prepare_blocking_dataframe(df, COL2, "col2", 0)
           candidates == build_candidate_pairs(df_b1, df_b2)
       IN  /\ p_b1' = df_b1
           /\ p_b2' = df_b2
           /\ IF candidates.raised
              THEN p_pc' = "error" /\ p_out' = p_out
              ELSE p_pc' = "done" /\ p_out' = File(candidates.rows)
    /\ UNCHANGED <<pc, parseVars, prepVars, normVars, input, chunksize_arg, duckVars>>

\* a loop body that creates the tables anew on every chunk
ProcessChunk_recreate(chunk) ==
    LET df_b1 == prepare_blocking_dataframe(chunk, COL1, "col1", rows_processed)
        df_b2 == prepare_blocking_dataframe(chunk, COL2, "col2", rows_processed)
    IN  IF df_b1.columns = {} \/ df_b2.columns = {}
        THEN /\ d_pc' = "error"
             /\ UNCHANGED <<first_chunk, rows_processed, pos, b1, b2, d_out>>
        ELSE /\ b1' = df_b1.rows
             /\ b2' = df_b2.rows
             /\ first_chunk' = FALSE
             /\ rows_processed' = rows_processed + Len(chunk.rows)
             /\ pos' = pos + Len(chunk.rows)
             /\ UNCHANGED <<d_pc, d_out>>

\* the body of the chunk loop of run_blocking_duckdb. A table has at least one
\* column: CREATE TABLE ... AS SELECT * from a frame of no columns fails.
ProcessChunk(chunk) ==
    LET df_b1 == prepare_blocking_dataframe(chunk, COL1, "col1", rows_processed)
        df_b2 == prepare_blocking_dataframe(chunk, COL2, "col2", rows_processed)
    IN  IF df_b1.columns = {} \/ df_b2.columns = {}
        THEN /\ d_pc' = "error"
             /\ UNCHANGED <<first_chunk, rows_processed, pos, b1, b2, d_out>>
        ELSE /\ IF first_chunk
                THEN b1' = df_b1.rows /\ b2' = df_b2.rows
                ELSE b1' = b1 \o df_b1.rows /\ b2' = b2 \o df_b2.rows
             /\ first_chunk' = FALSE
             /\ rows_processed' = rows_processed + Len(chunk.rows)
             /\ pos' = pos + Len(chunk.rows)
             /\ UNCHANGED <<d_pc, d_out>>

\* one iteration of the loop: the reader hands out the next chunk
DuckdbChunk ==
    /\ d_pc = "loop"
    /\ pos < Len(input)
    /\ ProcessChunk(read_chunk(input, pos, effective_chunksize(chunksize_arg)))
    /\ UNCHANGED <<pc, parseVars, prepVars, normVars, input, chunksize_arg, pandasVars>>

\* On a table of no data rows the reader either hands out nothing or hands out
\* one first chunk of no rows (the header's columns): both are taken.
DuckdbEmptyChunk ==
    /\ d_pc = "loop"
    /\ input = <<>>
    /\ first_chunk
    /\ ProcessChunk(read_chunk(input, 0, effective_chunksize(chunksize_arg)))
    /\ UNCHANGED <<pc, parseVars, prepVars, normVars, input, chunksize_arg, pandasVars>>

\* the reader is exhausted and no chunk was seen: "No data found in input."
DuckdbNoData ==
    /\ d_pc = "loop"
    /\ pos = Len(input)
    /\ first_chunk
    /\ d_pc' = "nodata"
    /\ UNCHANGED <<first_chunk, rows_processed, pos, b1, b2, d_out>>
    /\ UNCHANGED <<pc, parseVars, prepVars, normVars, input, chunksize_arg, pandasVars>>

\* the reader is exhausted: the join of b1 and b2 is copied to the output
DuckdbJoin ==
    /\ d_pc = "loop"
    /\ pos = Len(input)
    /\ ~first_chunk
    /\ d_out' = File(InnerJoin(b1, b2))
    /\ d_pc' = "done"
    /\ UNCHANGED <<first_chunk, rows_processed, pos, b1, b2>>
    /\ UNCHANGED <<pc, parseVars, prepVars, normVars, input, chunksize_arg, pandasVars>>

Next == RunPandas \/ DuckdbChunk \/ DuckdbEmptyChunk \/ DuckdbNoData \/ DuckdbJoin

Spec == Init /\ [][Next]_vars

\* run_blocking_duckdb alone. The function is sequential code: as long as a step
\* of it can be taken, one is taken.
DuckdbNext == DuckdbChunk \/ DuckdbEmptyChunk \/ DuckdbNoData \/ DuckdbJoin

\* the tables whose cells are a missing value or one company name
DuckdbCells == {NanCell, StrCell(<<"C", "t", "y", " ", "A">>)}

InitDuckdb ==
    /\ Init
    /\ \A i \in 1..Len(input) : \A c \in {COL1, COL2} : input[i][c] \in DuckdbCells

SpecDuckdb == InitDuckdb /\ [][DuckdbNext]_vars /\ WF_vars(DuckdbNext)

\* --------------------------------- prepare_blocking_dataframe on any frame

\* a chunk starting at row start whose labels are those of the reader, some of
\* them replaced by a label int() rejects
InitPrep ==
    /\ pc = "input"
    /\ in_tokens = <<>>
    /\ ParseIdle
    /\ RunIdle
    /\ NormIdle
    /\ \E start \in 0..MaxStart, n \in 0..MaxRows :
          /\ prep_offset = start
          /\ \E labels \in [1..n -> BOOLEAN], data \in [1..n -> InputRows] :
                prep_df = [columns |-> {COL1, COL2},
                           index |-> [k \in 1..n |->
                                        IF labels[k] THEN IntLabel(start + k - 1)
                                        ELSE BadLabel],
                           rows |-> data]
    /\ prepared = NoFrame

PrepareFrame ==
    /\ pc = "input"
    /\ pc' = "prepared"
    /\ prepared' = prepare_blocking_dataframe(prep_df, COL1, "col1", prep_offset)
    /\ UNCHANGED <<parseVars, runVars, normVars, prep_df, prep_offset>>

SpecPrep == InitPrep /\ [][PrepareFrame]_vars

\* ------------------------------------ the classifier: type, core, suffix

InitDetect ==
    /\ pc = "input"
    /\ RunIdle
    /\ PrepIdle
    /\ NormIdle
    /\ in_tokens \in SeqsUpTo(DetectVocab, MaxTokens)
    /\ ParseIdle

\* parse_merchant from its token list on: detect_type, then extract_core with the
\* detected type, then extract_suffix
ParseTokens ==
    /\ pc = "input"
    /\ pc' = "parsed"
    /\ out_type' = detect_type(in_tokens)
    /\ arg_type' = detect_type(in_tokens)
    /\ out_core' = extract_core(in_tokens, detect_type(in_tokens))
    /\ out_suffix' = extract_suffix(in_tokens)
    /\ UNCHANGED <<in_tokens, out_stripped, runVars, prepVars, normVars>>

SpecDetect == InitDetect /\ [][ParseTokens]_vars

\* ------------------------------------------ extract_core with any mtype

InitCore ==
    /\ pc = "input"
    /\ RunIdle
    /\ PrepIdle
    /\ NormIdle
    /\ \E m \in MerchantType :
          /\ arg_type = m
          /\ in_tokens \in SeqsUpTo(CoreVocab(m), MaxCoreTokens)
    /\ out_type = "OTHER"
    /\ out_core = <<>>
    /\ out_suffix = <<>>
    /\ out_stripped = <<>>

ExtractCore ==
    /\ pc = "input"
    /\ pc' = "core"
    /\ out_core' = extract_core(in_tokens, arg_type)
    /\ UNCHANGED <<in_tokens, arg_type, out_type, out_suffix, out_stripped, runVars, prepVars, normVars>>

SpecCore == InitCore /\ [][ExtractCore]_vars

\* --------------------------------------- _strip_type_prefix with any mtype

\* _strip_type_prefix works on a copy (t = tokens[:]): the caller's list stays
StripTypePrefix ==
    /\ pc = "input"
    /\ pc' = "stripped"
    /\ out_stripped' = _strip_type_prefix(in_tokens, arg_type)
    /\ UNCHANGED <<in_tokens, arg_type, out_type, out_core, out_suffix, runVars, prepVars, normVars>>

SpecStrip == InitCore /\ [][StripTypePrefix]_vars

\* -------------------------------------------------------- extract_suffix

InitSuffix ==
    /\ pc = "input"
    /\ RunIdle
    /\ PrepIdle
    /\ NormIdle
    /\ in_tokens \in SeqsUpTo(SuffixVocab, MaxSuffixTokens)
    /\ ParseIdle

ExtractSuffix ==
    /\ pc = "input"
    /\ pc' = "suffix"
    /\ out_suffix' = extract_suffix(in_tokens)
    /\ UNCHANGED <<in_tokens, arg_type, out_type, out_core, out_stripped, runVars, prepVars, normVars>>

SpecSuffix == InitSuffix /\ [][ExtractSuffix]_vars

\* ------------------------------------- normalize_name and parse_merchant

\* the characters of the raw names: letters of CO.OP in either case,
\* punctuation and whitespace
NormAlphabet == {"c", "O", ".", "p", " ", "\t"}

\* "Quan an Huong Sen" with its Vietnamese accents, and without them
QuanAnAccented ==
    <<"Q", "u", "a'", "n", " ", "a(", "n", " ",
      "H", "u+", "o+", "n", "g", " ", "S", "e", "n">>
QuanAnPlain ==
    <<"Q", "u", "a", "n", " ", "a", "n", " ",
      "H", "u", "o", "n", "g", " ", "S", "e", "n">>
CtyTnhhAbcQ1 ==
    <<"C", "t", "y", " ", "T", "N", "H", "H", " ", "A", "B", "C", " ", "Q", "1">>

ExampleNames == {QuanAnAccented, QuanAnPlain, CtyTnhhAbcQ1}

InitNorm ==
    /\ pc = "input"
    /\ RunIdle
    /\ PrepIdle
    /\ ParseIdle
    /\ in_tokens = <<>>
    /\ name_raw \in {NanCell}
           \cup {StrCell(s) : s \in SeqsUpTo(NormAlphabet, MaxNameLen) \cup ExampleNames}
    /\ norm_once = <<>>
    /\ norm_twice = <<>>

\* normalize_name(x)
NormalizeOnce ==
    /\ pc = "input"
    /\ pc' = "once"
    /\ norm_once' = normalize_name(name_raw)
    /\ UNCHANGED <<name_raw, norm_twice, parseVars, runVars, prepVars>>

\* normalize_name of the str the first call returned
NormalizeAgain ==
    /\ pc = "once"
    /\ pc' = "twice"
    /\ norm_twice' = normalize_name(StrCell(norm_once))
    /\ UNCHANGED <<name_raw, norm_once, parseVars, runVars, prepVars>>

\* parse_merchant(raw_name); out_stripped is the list extract_core filters
ParseMerchant ==
    /\ pc = "input"
    /\ pc' = "parsed"
    /\ LET parsed == parse_merchant(name_raw) IN
          /\ norm_once' = parsed.normalized
          /\ in_tokens' = parsed.tokens
          /\ out_type' = parsed.mtype
          /\ arg_type' = parsed.mtype
          /\ out_stripped' = _strip_type_prefix(parsed.tokens, parsed.mtype)
          /\ out_core' = parsed.core
          /\ out_suffix' = parsed.suffix_tokens
    /\ UNCHANGED <<name_raw, norm_twice, runVars, prepVars>>

SpecNorm == InitNorm /\ [][NormalizeOnce \/ NormalizeAgain \/ ParseMerchant]_vars

\* ----------------------------------------------------------------- C1

Count(x, s) == Cardinality({k \in 1..Len(s) : s[k] = x})

\* s and t hold the same rows the same number of times, in any order
SameBag(s, t) ==
    /\ Len(s) = Len(t)
    /\ \A k \in 1..Len(s) : Count(s[k], s) = Count(s[k], t)

\* C1: for every input table and every positive chunk size the two strategies
\* produce the same candidate-pair tuples, compared as unordered collections
\* over all output columns.
C1_JoinEquivalence ==
    (chunksize_arg > 0 /\ p_pc = "done" /\ d_pc = "done")
        => SameBag(p_out.rows, d_out.rows)

\* ----------------------------------------------------------------- C2

WholeRowIds(col_name, source_label) ==
    LET whole == prepare_blocking_dataframe(read_csv(input), col_name, source_label, 0)
    IN  [k \in 1..Len(whole.rows) |-> whole.rows[k].row_id]

\* C2: the chunks of the loop, each with row_offset = the rows of the earlier
\* chunks and the row index the reader gives it, get for every row the row_id of
\* processing the whole input as one chunk with row_offset 0.
C2_ChunkedRowIdsMatchWhole ==
    d_pc \in {"loop", "done"} =>
        /\ \A k \in 1..Len(b1) : b1[k].row_id = WholeRowIds(COL1, "col1")[k]
        /\ \A k \in 1..Len(b2) : b2[k].row_id = WholeRowIds(COL2, "col2")[k]

\* ----------------------------------------------------------------- C5

\* out holds one row per pair of t1 x t2 with equal block keys, each once, and
\* nothing else; a record with no partner is in no row
PairsExactlyOnce(out, t1, t2) ==
    /\ \A i \in 1..Len(t1), j \in 1..Len(t2) :
          Count(Joined(t1[i], t2[j]), out)
              = IF t1[i].block_key = t2[j].block_key THEN 1 ELSE 0
    /\ \A k \in 1..Len(out) :
          \E i \in 1..Len(t1), j \in 1..Len(t2) :
              /\ t1[i].block_key = t2[j].block_key
              /\ out[k] = Joined(t1[i], t2[j])
    /\ \A i \in 1..Len(t1) :
          (\A j \in 1..Len(t2) : t2[j].block_key # t1[i].block_key)
              => \A k \in 1..Len(out) : out[k].row_id_1 # t1[i].row_id
    /\ \A j \in 1..Len(t2) :
          (\A i \in 1..Len(t1) : t1[i].block_key # t2[j].block_key)
              => \A k \in 1..Len(out) : out[k].row_id_2 # t2[j].row_id

\* C5: the candidate output holds one row for each pair of a record of column 1
\* and a record of column 2 with equal block keys, each such pair exactly once,
\* and no other rows; a record whose key matches nothing is in zero pairs.
C5_PairsExactlyOnce ==
    /\ p_pc = "done" => PairsExactlyOnce(p_out.rows, p_b1.rows, p_b2.rows)
    /\ d_pc = "done" => PairsExactlyOnce(d_out.rows, b1, b2)

\* both strategies wrote several pairs and a record of column 1 found no partner
C5_Witness ==
    /\ p_pc = "done"
    /\ d_pc = "done"
    /\ Len(p_out.rows) >= 2
    /\ Len(d_out.rows) >= 2
    /\ \E i \in 1..Len(b1) : \A j \in 1..Len(b2) : b2[j].block_key # b1[i].block_key

\* ----------------------------------------------------------------- C6

\* C6: on a header and zero data rows both strategies finish without error and
\* yield zero candidate rows: in-memory writes the header only, out-of-core
\* reports no data and ends without the join and without output.
C6_EmptyInputNoError ==
    input = <<>> =>
        /\ p_pc \in {"idle", "start", "done"}
        /\ p_pc = "done" => p_out = File(<<>>)
        /\ d_pc \in {"idle", "loop", "nodata"}
        /\ d_out = NoFile

\* ----------------------------------------------------------------- C7

IsEmptyParse(r) ==
    /\ r.normalized = <<>>
    /\ r.merchant_type = "OTHER"
    /\ r.core = <<>>
    /\ r.suffix = <<>>
    /\ r.block_key = <<"OTHER", "|", <<>>>>

\* the records of the rows 1..n of the input are there, one per row, those of
\* the cells that are no str with the empty parse
OneRecordPerRow(recs, col_name, n) ==
    /\ Len(recs) = n
    /\ \A k \in 1..n :
          /\ recs[k].raw_name = input[k][col_name]
          /\ ~input[k][col_name].isstr
                => /\ IsEmptyParse(recs[k])
                   /\ parse_merchant(input[k][col_name]).tokens = <<>>

\* C7: a cell that is no str never fails the run and never drops its row: its
\* record has normalized "", no tokens, type OTHER, empty core and suffix, block
\* key "OTHER|", and there is exactly one record per input row.
C7_MissingCellsKeepRows ==
    /\ p_pc \in {"done", "error"} =>
          /\ OneRecordPerRow(p_b1.rows, COL1, Len(input))
          /\ OneRecordPerRow(p_b2.rows, COL2, Len(input))
    /\ d_pc \in {"loop", "done"} =>
          /\ OneRecordPerRow(b1, COL1, pos)
          /\ OneRecordPerRow(b2, COL2, pos)
    /\ d_pc = "done" => pos = Len(input)
    /\ input # <<>> => (p_pc # "error" /\ d_pc \notin {"error", "nodata"})

\* both runs are done on a table with a cell that is no str and a cell that is
C7_Witness ==
    /\ p_pc = "done"
    /\ d_pc = "done"
    /\ \E k \in 1..Len(input) : ~input[k][COL1].isstr /\ input[k][COL2].isstr
    /\ \E k \in 1..Len(input) : input[k][COL1].isstr

\* ----------------------------------------------------------------- C8

StrictlyIncreasingIds(recs) ==
    \A i \in 1..Len(recs), j \in 1..Len(recs) : i < j => recs[i].row_id < recs[j].row_id

\* C8: within one source column the row ids are pairwise distinct and increase
\* in input row order; this also holds for prepare_blocking_dataframe when some
\* row indexes are not coercible to an integer and the positional fallback is
\* used for those rows.
C8_RowIdsDistinctIncreasing ==
    pc = "prepared" => StrictlyIncreasingIds(prepared.rows)

\* the part of C8 about a whole chunked run, where every label is the reader's
C8_ChunkedRunIdsIncrease ==
    d_pc \in {"loop", "done"} => StrictlyIncreasingIds(b1) /\ StrictlyIncreasingIds(b2)

\* ----------------------------------------------------------------- C3

\* the literals of the disjuncts of m's rule in detect_type that toks satisfies
CausingTokens(toks, m) ==
    LET when(b, S) == IF b THEN S ELSE {} IN
    CASE m = "HOUSEHOLD_HKD" ->
            when(In(tHKD, toks), {tHKD})
            \cup when(_has_sequence(toks, <<tHO, tKINH, tDOANH>>), {tHO, tKINH, tDOANH})
      [] m = "PHARMACY" -> {tNHA, tTHUOC}
      [] m = "RESTAURANT_QUAN" ->
            when(_has_sequence(toks, <<tQUAN, tAN>>), {tQUAN, tAN})
            \cup when(_has_sequence(toks, <<tNHA, tHANG>>), {tNHA, tHANG})
      [] m = "HAIR_SALON" ->
            when(In(tSALON, toks) /\ In(tTOC, toks), {tSALON, tTOC})
            \cup when(_has_sequence(toks, <<tTIEM, tTOC>>), {tTIEM, tTOC})
      [] m = "GAS" -> {tGAS}
      [] m = "CAFE" -> {tCAFE, tCOFFEE} \cap Range(toks)
      [] m = "SHOP" ->
            when(In(tCUA, toks) /\ In(tHANG, toks), {tCUA, tHANG})
            \cup ({tSHOP, tSTORE, tMART} \cap Range(toks))
      [] m = "OFFICE_VP" ->
            when(In(tVP, toks), {tVP})
            \cup when(_has_sequence(toks, <<tVAN, tPHONG>>), {tVAN, tPHONG})
      [] m = "COMPANY_CT" ->
            ({tCT, tCTY, tTNHH} \cap Range(toks))
            \cup when(In(tCONG, toks) /\ In(tTY, toks), {tCONG, tTY})
      [] OTHER -> {}

HasWindow(toks, seq) ==
    \E off \in 0..(Len(toks) - Len(seq)) : \A k \in 1..Len(seq) : toks[off + k] = seq[k]

RuleMatches(cat, toks) ==
    LET has(x) == x \in Range(toks) IN
    CASE cat = "HOUSEHOLD_HKD" -> has(tHKD) \/ HasWindow(toks, <<tHO, tKINH, tDOANH>>)
      [] cat = "PHARMACY" -> HasWindow(toks, <<tNHA, tTHUOC>>)
      [] cat = "RESTAURANT_QUAN" ->
            HasWindow(toks, <<tQUAN, tAN>>) \/ HasWindow(toks, <<tNHA, tHANG>>)
      [] cat = "HAIR_SALON" ->
            (has(tSALON) /\ has(tTOC)) \/ HasWindow(toks, <<tTIEM, tTOC>>)
      [] cat = "GAS" -> has(tGAS)
      [] cat = "CAFE" -> has(tCAFE) \/ has(tCOFFEE)
      [] cat = "SHOP" -> (has(tCUA) /\ has(tHANG)) \/ has(tSHOP) \/ has(tSTORE) \/ has(tMART)
      [] cat = "OFFICE_VP" -> has(tVP) \/ HasWindow(toks, <<tVAN, tPHONG>>)
      [] cat = "COMPANY_CT" ->
            has(tCT) \/ has(tCTY) \/ has(tTNHH) \/ (has(tCONG) /\ has(tTY))
      [] OTHER -> TRUE

Priority ==
    <<"HOUSEHOLD_HKD", "PHARMACY", "RESTAURANT_QUAN", "HAIR_SALON", "GAS", "CAFE",
      "SHOP", "OFFICE_VP", "COMPANY_CT", "OTHER">>

FirstMatch(toks) ==
    Priority[CHOOSE i \in 1..Len(Priority) :
                /\ RuleMatches(Priority[i], toks)
                /\ \A j \in 1..(i - 1) : ~RuleMatches(Priority[j], toks)]

\* C4: detect_type returns one of the 10 categories, the first in the priority
\* order whose rule matches (OTHER for the empty sequence); sequence rules match
\* only an adjacent, order-preserving window.
C4_DetectTypeFirstMatch ==
    pc = "parsed" =>
        /\ out_type \in MerchantType
        /\ out_type = FirstMatch(in_tokens)
        /\ (in_tokens = <<>> => out_type = "OTHER")

\* a sequence matching two rules gets the earlier one; the elements of a
\* sequence rule, present but not adjacent, do not match it
C4_Witness ==
    /\ pc = "parsed"
    /\ \/ /\ RuleMatches("PHARMACY", in_tokens)
          /\ RuleMatches("COMPANY_CT", in_tokens)
          /\ out_type = "PHARMACY"
       \/ /\ in_tokens = <<tNHA, tABC, tTHUOC>>
          /\ out_type = "OTHER"

\* ----------------------------------------------------------------- C9

FirstNonGeneric(s) ==
    IF \E i \in 1..Len(s) : s[i] \notin GENERIC_TOKENS
    THEN s[CHOOSE i \in 1..Len(s) :
               /\ s[i] \notin GENERIC_TOKENS
               /\ \A j \in 1..(i - 1) : s[j] \in GENERIC_TOKENS]
    ELSE <<>>

\* C9: extract_core never returns a generic token, for every token sequence and
\* every merchant type; it returns the first non-generic token of the stripped
\* list, or the empty string when none remains.
C9_CoreNeverGeneric ==
    pc = "core" =>
        /\ out_core \notin GENERIC_TOKENS
        /\ out_core = FirstNonGeneric(_strip_type_prefix(in_tokens, arg_type))

\* a prefix was stripped, the remainder starts with a generic token and the core
\* is the token after it
C9_Witness ==
    /\ pc = "core"
    /\ LET s == _strip_type_prefix(in_tokens, arg_type) IN
          /\ Len(s) < Len(in_tokens)
          /\ Len(s) >= 2
          /\ s[1] \in GENERIC_TOKENS
          /\ out_core = s[2]

\* ---------------------------------------------------------------- C10

\* C10: extract_suffix returns exactly the maximal trailing run of suffix tokens
\* (all digits, T and one or more digits, or a suffix candidate) in the original
\* left-to-right order: empty when the last token is none of these, the whole
\* list when every token is one.
C10_SuffixMaximalTrailingRun ==
    pc = "suffix" =>
        LET n == Len(in_tokens)
            k == Len(out_suffix)
        IN  /\ k <= n
            /\ out_suffix = SubSeq(in_tokens, n - k + 1, n)
            /\ \A i \in 1..k : IsSuffixToken(out_suffix[i])
            /\ (k < n => ~IsSuffixToken(in_tokens[n - k]))

\* a trailing run of two different suffix tokens after a token that is none
C10_Witness ==
    /\ pc = "suffix"
    /\ Len(out_suffix) = 2
    /\ Len(in_tokens) = 3
    /\ out_suffix[1] # out_suffix[2]
    /\ out_suffix = <<in_tokens[2], in_tokens[3]>>

\* ---------------------------------------------------------------- C11

\* C11: normalize_name is idempotent: normalizing the result of normalize_name
\* again returns it unchanged, for every input, those with the literal CO.OP,
\* with punctuation between letters and with runs of whitespace included.
C11_NormalizeIdempotent == pc = "twice" => norm_twice = norm_once

\* a name with CO.OP in mixed case: the first call rewrites it, the second
\* call has run
C11_Witness ==
    /\ pc = "twice"
    /\ name_raw = StrCell(<<"c", "O", ".", "O", "p">>)
    /\ norm_once = Coop

\* ---------------------------------------------------------------- C12

tQUAN_accented == <<"Q", "U", "A'", "N">>
tAN_accented == <<"A(", "N">>
tHUONG_accented == <<"H", "U+", "O+", "N", "G">>
tHUONG == <<"H", "U", "O", "N", "G">>
tSEN == <<"S", "E", "N">>

HasAccent(s) == \E i \in 1..Len(s) : s[i] \in AccentedUpper \/ UpperChar(s[i]) \in AccentedUpper

\* C12 as stated: the accented name "Quan an Huong Sen" is classified
\* RESTAURANT_QUAN and has the tokens QUAN, AN stripped before the core is chosen.
C12_AccentedIsRestaurant ==
    (pc = "parsed" /\ name_raw = StrCell(QuanAnAccented)) =>
        /\ out_type = "RESTAURANT_QUAN"
        /\ Len(in_tokens) = 4
        /\ out_stripped = Drop(in_tokens, 2)

\* C12 as the code has it: normalization keeps every accent, so the accented name
\* has the accented tokens, is classified OTHER and has nothing stripped; the same
\* name written without accents is classified RESTAURANT_QUAN and has QUAN, AN
\* stripped, which leaves HUONG, SEN and the core HUONG.
C12_AccentsKept ==
    pc = "parsed" =>
        /\ (name_raw.isstr => (HasAccent(norm_once) <=> HasAccent(name_raw.chars)))
        /\ (name_raw = StrCell(QuanAnAccented) =>
               /\ in_tokens = <<tQUAN_accented, tAN_accented, tHUONG_accented, tSEN>>
               /\ out_type = "OTHER"
               /\ out_stripped = in_tokens
               /\ out_core = tQUAN_accented)
        /\ (name_raw = StrCell(QuanAnPlain) =>
               /\ in_tokens = <<tQUAN, tAN, tHUONG, tSEN>>
               /\ out_type = "RESTAURANT_QUAN"
               /\ out_stripped = <<tHUONG, tSEN>>
               /\ out_core = tHUONG)

\* the accented name has been parsed and is no restaurant
C12_Witness ==
    /\ pc = "parsed"
    /\ name_raw = StrCell(QuanAnAccented)
    /\ out_type = "OTHER"
    /\ out_stripped = in_tokens

\* ---------------------------------------------------------------- C13

\* Between chunks the counter is the number of rows the reader has handed out,
\* every chunk before the current one was a full one, both tables hold one
\* record per row handed out, in the order of the input, and before the first
\* chunk there is no table content.
ChunkLoopInvariant ==
    /\ rows_processed = pos
    /\ (d_pc = "loop" /\ pos < Len(input)) =>
           rows_processed % effective_chunksize(chunksize_arg) = 0
    /\ Len(b1) = rows_processed
    /\ Len(b2) = rows_processed
    /\ \A i \in 1..rows_processed :
           b1[i].raw_name = input[i][COL1] /\ b2[i].raw_name = input[i][COL2]
    /\ (first_chunk => rows_processed = 0)
    /\ (d_out.written => d_pc = "done")

\* A step that changes a table or the counter is one chunk: it comes before the
\* join, takes the next rows of the input, as many as the chunk size allows, and
\* appends their records to what the tables held (nothing, for the first chunk).
ChunkStepAppends ==
    (b1' # b1 \/ b2' # b2 \/ rows_processed' # rows_processed) =>
        LET n == rows_processed' - rows_processed IN
        /\ d_pc = "loop" /\ d_pc' = "loop"
        /\ ~d_out.written /\ ~d_out'.written
        /\ n >= 1
        /\ n = Min(effective_chunksize(chunksize_arg), Len(input) - rows_processed)
        /\ Len(b1') = Len(b1) + n /\ SubSeq(b1', 1, Len(b1)) = b1
        /\ Len(b2') = Len(b2) + n /\ SubSeq(b2', 1, Len(b2)) = b2
        /\ (first_chunk => b1 = <<>> /\ b2 = <<>>)
        /\ ~first_chunk'

\* A step that writes the output is the join: nothing was written before it, the
\* reader is exhausted after at least one chunk, both tables hold rows_processed
\* records, the number of rows of the input, and the step leaves them alone.
JoinStepOnceAtEnd ==
    d_out' # d_out =>
        /\ ~d_out.written /\ d_out'.written
        /\ ~first_chunk
        /\ pos = Len(input)
        /\ rows_processed = Len(input)
        /\ Len(b1) = rows_processed /\ Len(b2) = rows_processed
        /\ b1' = b1 /\ b2' = b2 /\ rows_processed' = rows_processed

IsTail(r, t) == \E k \in 0..Len(t) : r = SubSeq(t, k + 1, Len(t))

WindowAt(t, seq, off) == \A k \in 1..Len(seq) : t[off + k] = seq[k]

\* r is what follows the first contiguous window of t equal to seq
IsRestAfterWindow(r, t, seq) ==
    \E off \in 0..(Len(t) - Len(seq)) :
        /\ WindowAt(t, seq, off)
        /\ \A o \in 0..(off - 1) : ~WindowAt(t, seq, o)
        /\ r = SubSeq(t, off + Len(seq) + 1, Len(t))

\* the sequence rule: the rest after the first window, or t when there is none
SequenceRule(r, t, seq) ==
    IF HasWindow(t, seq) THEN IsRestAfterWindow(r, t, seq) ELSE r = t

\* r is what follows the first occurrence of tok in t
IsRestAfterToken(r, t, tok) ==
    \E i \in 1..Len(t) :
        /\ t[i] = tok
        /\ \A j \in 1..(i - 1) : t[j] # tok
        /\ r = SubSeq(t, i + 1, Len(t))

\* r is t without its first token when that token is one of toks, else t
LeadingTokenRule(r, t, toks) ==
    IF t # <<>> /\ t[1] \in toks THEN r = Tail(t) ELSE r = t

\* r is t without its maximal leading run of tokens of toks
IsRestAfterLeadingRun(r, t, toks) ==
    \E k \in 0..Len(t) :
        /\ \A j \in 1..k : t[j] \in toks
        /\ (k < Len(t) => t[k + 1] \notin toks)
        /\ r = SubSeq(t, k + 1, Len(t))

\* C14: _strip_type_prefix returns a contiguous tail of its tokens and the tokens
\* themselves when no rule applies. A sequence rule gives the rest strictly after
\* the first window equal to the sequence; HOUSEHOLD_HKD with HKD present and
\* CAFE give the rest after the first HKD, the first CAFE (else the first
\* COFFEE); GAS, SHOP (CH, TIEM) and OFFICE_VP (VP) drop one leading token only;
\* COMPANY_CT drops the maximal leading run of CT, CTY, CONG, TY, TNHH; OTHER
\* changes nothing. Within a type the rules are tried in the order given here.
C14_StripIsRuleTail ==
    pc = "stripped" =>
        LET t == in_tokens
            r == out_stripped
            has(x) == x \in Range(t)
        IN  /\ IsTail(r, t)
            /\ (Range(t) \cap StripLiterals(arg_type) = {} => r = t)
            /\ (Len(r) < Len(t) => t[Len(t) - Len(r)] \in StripLiterals(arg_type))
            /\ CASE arg_type = "HOUSEHOLD_HKD" ->
                      IF has(tHKD) THEN IsRestAfterToken(r, t, tHKD)
                      ELSE SequenceRule(r, t, <<tHO, tKINH, tDOANH>>)
                 [] arg_type = "PHARMACY" -> SequenceRule(r, t, <<tNHA, tTHUOC>>)
                 [] arg_type = "RESTAURANT_QUAN" ->
                      IF HasWindow(t, <<tQUAN, tAN>>)
                      THEN IsRestAfterWindow(r, t, <<tQUAN, tAN>>)
                      ELSE SequenceRule(r, t, <<tNHA, tHANG>>)
                 [] arg_type = "HAIR_SALON" ->
                      IF HasWindow(t, <<tSALON, tTOC>>)
                      THEN IsRestAfterWindow(r, t, <<tSALON, tTOC>>)
                      ELSE SequenceRule(r, t, <<tTIEM, tTOC>>)
                 [] arg_type = "GAS" -> LeadingTokenRule(r, t, {tGAS})
                 [] arg_type = "CAFE" ->
                      IF has(tCAFE) THEN IsRestAfterToken(r, t, tCAFE)
                      ELSE IF has(tCOFFEE) THEN IsRestAfterToken(r, t, tCOFFEE)
                      ELSE r = t
                 [] arg_type = "SHOP" ->
                      IF HasWindow(t, <<tCUA, tHANG>>)
                      THEN IsRestAfterWindow(r, t, <<tCUA, tHANG>>)
                      ELSE LeadingTokenRule(r, t, {tCH, tTIEM})
                 [] arg_type = "OFFICE_VP" ->
                      IF t # <<>> /\ t[1] = tVP THEN r = Tail(t)
                      ELSE SequenceRule(r, t, <<tVAN, tPHONG>>)
                 [] arg_type = "COMPANY_CT" ->
                      IsRestAfterLeadingRun(r, t, {tCT, tCTY, tCONG, tTY, tTNHH})
                 [] OTHER -> r = t

\* a company name with a leading run of two company tokens and a third one
\* after the first token that is none: only the run is dropped
C14_Witness ==
    /\ pc = "stripped"
    /\ arg_type = "COMPANY_CT"
    /\ in_tokens = <<tCTY, tTNHH, tABC, tCT>>
    /\ out_stripped = <<tABC, tCT>>

====
